---- MODULE Spec2Model ----
(***************************************************************************)
(* Model of src/main.rs: a command that copies standard input into the     *)
(* file named by its first argument and reports the file's size.           *)
(*                                                                         *)
(* The state is the process (argument vector, position in main, the local  *)
(* variables filename and content, the two output streams, the exit code)  *)
(* together with the part of the operating system it acts on (the bytes    *)
(* waiting on standard input, the directories and the files).  Every       *)
(* library call of main that returns a Result is modelled with both of     *)
(* its outcomes.  Runs follow one another on the same file system.         *)
(*                                                                         *)
(* Assumptions of the model: the argument vector holds the program name    *)
(* (args[0] exists); targets are regular files; standard error accepts     *)
(* what is written to it; no other process changes the files during a run. *)
(***************************************************************************)
EXTENDS Integers, Sequences, FiniteSets, TLC

\* ---------------------------------------------------------------- bounds
\* longest standard input, in bytes
MaxLen == 2
\* most positional arguments after the target path
MaxExtra == 1

\* exit status of a Rust process whose main thread panicked
PanicExit == 101

\* ------------------------------------------------------------ environment
\* 0x61 'a'; 0xC3 0xA9 is the two-byte encoding of U+00E9; either of the
\* last two alone is not valid UTF-8
Bytes == {97, 195, 169}

ByteSeqs(n) == UNION {[1..k -> Bytes] : k \in 0..n}

Prog == "prog"

\* a path is <<directory, name>>
Paths == {<<".", "f">>, <<".", "g">>, <<"nodir", "f">>}
NoPath == <<>>

\* paths extra arguments are drawn from
ExtraPaths == {<<".", "f">>, <<".", "g">>}

InitDirs == {"."}

NoFile == [exists |-> FALSE, data |-> <<>>]
File(b) == [exists |-> TRUE, data |-> b]

Prefix(s, n) == SubSeq(s, 1, n)

\* ------------------------------------------------------------------ text
\* UTF-8 validation done by read_to_string, for the one- and two-byte forms
\* (no lead byte of a longer form is in Bytes)
RECURSIVE Utf8Valid(_)
Utf8Valid(b) ==
    IF b = <<>> THEN TRUE
    ELSE IF b[1] < 128 THEN Utf8Valid(Tail(b))
    ELSE IF b[1] \in 194..223 /\ Len(b) >= 2 /\ b[2] \in 128..191
         THEN Utf8Valid(Tail(Tail(b)))
    ELSE FALSE

\* number of characters of a valid text: the bytes that are not continuations
RECURSIVE CharCount(_)
CharCount(b) ==
    IF b = <<>> THEN 0
    ELSE (IF b[1] \in 128..191 THEN 0 ELSE 1) + CharCount(Tail(b))

ValidTexts == {b \in ByteSeqs(MaxLen) : Utf8Valid(b)}

\* argument vectors: the program name, then up to 1 + MaxExtra positionals
ArgVectors ==
    {<<Prog>>}
    \cup {<<Prog, p>> \o e : p \in Paths,
                             e \in UNION {[1..k -> ExtraPaths] : k \in 0..MaxExtra}}

\* ----------------------------------------------------------------- lines
UsageLine(name) == [kind |-> "Usage", arg |-> name]
NoteLine == [kind |-> "Content will be read from stdin", arg |-> ""]
ReadErrLine(cause) == [kind |-> "Error reading stdin", arg |-> cause]
WriteErrLine(cause) == [kind |-> "Error writing file", arg |-> cause]
PanicLine(site) == [kind |-> "panicked", arg |-> site]
CreatedLine(p, n) == [kind |-> "Created", path |-> p, bytes |-> n]

\* ----------------------------------------------------------- library calls
\* io::stdin().read_to_string(&mut content): every byte up to end of input,
\* then validation; an I/O error can end it at any point
ReadResults(input) ==
    {[ok |-> FALSE, cause |-> "io", text |-> <<>>]}
    \cup (IF Utf8Valid(input)
          THEN {[ok |-> TRUE, cause |-> "", text |-> input]}
          ELSE {[ok |-> FALSE, cause |-> "invalid utf-8", text |-> <<>>]})

\* fs::write(path, text) creating missing directories first
WriteResultsMkdir(p, text, f, d) ==
    {[ok |-> TRUE, cause |-> "", opened |-> TRUE, n |-> Len(text),
      fs |-> [f EXCEPT ![p] = File(text)], dirs |-> d \cup {p[1]}]}

\* fs::write(path, text) opening the file for append
WriteResultsAppend(p, text, f, d) ==
    IF p[1] \notin d
    THEN {[ok |-> FALSE, cause |-> "not found", opened |-> FALSE, n |-> 0,
           fs |-> f, dirs |-> d]}
    ELSE {[ok |-> TRUE, cause |-> "", opened |-> TRUE, n |-> Len(text),
           fs |-> [f EXCEPT ![p] = File(f[p].data \o text)], dirs |-> d]}

\* fs::write(path, text) putting the old file back when the write fails
WriteResultsRollback(p, text, f, d) ==
    IF p[1] \notin d
    THEN {[ok |-> FALSE, cause |-> "not found", opened |-> FALSE, n |-> 0,
           fs |-> f, dirs |-> d]}
    ELSE {[ok |-> FALSE, cause |-> "denied", opened |-> FALSE, n |-> 0,
           fs |-> f, dirs |-> d]}
         \cup {[ok |-> FALSE, cause |-> "io", opened |-> TRUE, n |-> k,
                fs |-> f, dirs |-> d] : k \in 0..(Len(text) - 1)}
         \cup {[ok |-> TRUE, cause |-> "", opened |-> TRUE, n |-> Len(text),
                fs |-> [f EXCEPT ![p] = File(text)], dirs |-> d]}

\* fs::write(path, text): open with create and truncate, then write_all.
\* The open fails when the parent directory is missing, and may fail for
\* other reasons (permissions); both leave the file system as it was.
\* Once opened the file exists and is empty; write_all then either puts
\* every byte, or fails after k < Len(text) bytes, which stay in the file.
\* No directory is created.
WriteResults(p, text, f, d) ==
    IF p[1] \notin d
    THEN {[ok |-> FALSE, cause |-> "not found", opened |-> FALSE, n |-> 0,
           fs |-> f, dirs |-> d]}
    ELSE {[ok |-> FALSE, cause |-> "denied", opened |-> FALSE, n |-> 0,
           fs |-> f, dirs |-> d]}
         \cup {[ok |-> FALSE, cause |-> "io", opened |-> TRUE, n |-> k,
                fs |-> [f EXCEPT ![p] = File(Prefix(text, k))], dirs |-> d]
               : k \in 0..(Len(text) - 1)}
         \cup {[ok |-> TRUE, cause |-> "", opened |-> TRUE, n |-> Len(text),
                fs |-> [f EXCEPT ![p] = File(text)], dirs |-> d]}

\* fs::metadata(path): the length of the file, or an error (always an error
\* when there is no file)
MetadataResults(p, f) ==
    {[ok |-> FALSE, len |-> 0]}
    \cup (IF f[p].exists THEN {[ok |-> TRUE, len |-> Len(f[p].data)]} ELSE {})

\* ------------------------------------------------------------------ state
VARIABLES
    args,       \* argument vector of the current run, args[1] the program name
    stdin,      \* bytes supplied on standard input to the current run
    fs,         \* path -> file
    dirs,       \* existing directories
    pc,         \* "start", then the position in main: "args" "read" "write" "meta" "print" "exited"
    filename,   \* local: &args[1]
    content,    \* local: the buffer
    size,       \* value of fs::metadata(filename).unwrap().len()
    stdout,     \* lines written to standard output
    stderr,     \* lines written to standard error
    exit,       \* exit status, -1 while running
    fs0,        \* history: the files when the run started
    readCalls,  \* history: calls of read_to_string in this run
    writeCalls, \* history: calls of fs::write in this run
    readRes,    \* history: "none" "ok" "err"
    writeRes,   \* history: what fs::write did
    prev        \* history: target and input of the preceding run if it exited 0

vars == <<args, stdin, fs, dirs, pc, filename, content, size, stdout, stderr,
          exit, fs0, readCalls, writeCalls, readRes, writeRes, prev>>

NoWrite == [state |-> "none", opened |-> FALSE, n |-> 0]
NoPrev == [path |-> NoPath, text |-> <<>>]

\* no process: the files, and what the preceding run left to remember
Idle ==
    /\ args = <<Prog>>
    /\ stdin = <<>>
    /\ pc = "start"
    /\ filename = NoPath
    /\ content = <<>>
    /\ size = -1
    /\ stdout = <<>>
    /\ stderr = <<>>
    /\ exit = -1
    /\ fs0 = fs
    /\ readCalls = 0
    /\ writeCalls = 0
    /\ readRes = "none"
    /\ writeRes = NoWrite

Init ==
    /\ dirs = InitDirs
    /\ \E b \in {NoFile} \cup {File(t) : t \in ValidTexts} :
          fs = [p \in Paths |-> IF p = <<".", "f">> THEN b ELSE NoFile]
    /\ prev = NoPrev
    /\ Idle

\* --------------------------------------------------------------- actions
\* the usage message sent to standard output
CheckArgsStdout ==
    /\ pc = "args"
    /\ IF Len(args) < 2
       THEN /\ stdout' = stdout \o <<UsageLine(args[1]), NoteLine>>
            /\ exit' = 1
            /\ pc' = "exited"
            /\ UNCHANGED <<filename, stderr>>
       ELSE /\ filename' = args[2]
            /\ pc' = "read"
            /\ UNCHANGED <<stdout, stderr, exit>>
    /\ UNCHANGED <<args, stdin, fs, dirs, content, size, fs0, readCalls,
                   writeCalls, readRes, writeRes, prev>>

\* the target taken from the last argument
CheckArgsLast ==
    /\ pc = "args"
    /\ IF Len(args) < 2
       THEN /\ stderr' = stderr \o <<UsageLine(args[1]), NoteLine>>
            /\ exit' = 1
            /\ pc' = "exited"
            /\ UNCHANGED filename
       ELSE /\ filename' = args[Len(args)]
            /\ pc' = "read"
            /\ UNCHANGED <<stderr, exit>>
    /\ UNCHANGED <<args, stdin, fs, dirs, content, size, stdout, fs0, readCalls,
                   writeCalls, readRes, writeRes, prev>>

\* main, the argument check and the binding of filename
CheckArgs ==
    /\ pc = "args"
    /\ IF Len(args) < 2
       THEN /\ stderr' = stderr \o <<UsageLine(args[1]), NoteLine>>
            /\ exit' = 1
            /\ pc' = "exited"
            /\ UNCHANGED filename
       ELSE /\ filename' = args[2]
            /\ pc' = "read"
            /\ UNCHANGED <<stderr, exit>>
    /\ UNCHANGED <<args, stdin, fs, dirs, content, size, stdout, fs0, readCalls,
                   writeCalls, readRes, writeRes, prev>>

\* the read with the target created or emptied beforehand
ReadStdinOpenFirst ==
    /\ pc = "read"
    /\ readCalls' = readCalls + 1
    /\ fs' = IF filename[1] \in dirs THEN [fs EXCEPT ![filename] = File(<<>>)]
             ELSE fs
    /\ \E r \in ReadResults(stdin) :
          IF r.ok
          THEN /\ content' = r.text
               /\ readRes' = "ok"
               /\ pc' = "write"
               /\ UNCHANGED <<stderr, exit>>
          ELSE /\ stderr' = stderr \o <<ReadErrLine(r.cause)>>
               /\ readRes' = "err"
               /\ exit' = 1
               /\ pc' = "exited"
               /\ UNCHANGED content
    /\ UNCHANGED <<args, stdin, dirs, filename, size, stdout, fs0, writeCalls,
                   writeRes, prev>>

\* main, the read of standard input into content
ReadStdin ==
    /\ pc = "read"
    /\ readCalls' = readCalls + 1
    /\ \E r \in ReadResults(stdin) :
          IF r.ok
          THEN /\ content' = r.text
               /\ readRes' = "ok"
               /\ pc' = "write"
               /\ UNCHANGED <<stderr, exit>>
          ELSE /\ stderr' = stderr \o <<ReadErrLine(r.cause)>>
               /\ readRes' = "err"
               /\ exit' = 1
               /\ pc' = "exited"
               /\ UNCHANGED content
    /\ UNCHANGED <<args, stdin, fs, dirs, filename, size, stdout, fs0,
                   writeCalls, writeRes, prev>>

\* main, the write of content to filename
WriteFile ==
    /\ pc = "write"
    /\ writeCalls' = writeCalls + 1
    /\ \E w \in WriteResults(filename, content, fs, dirs) :
          /\ fs' = w.fs
          /\ dirs' = w.dirs
          /\ writeRes' = [state |-> IF w.ok THEN "ok" ELSE "err",
                          opened |-> w.opened, n |-> w.n]
          /\ IF w.ok
             THEN /\ pc' = "meta"
                  /\ UNCHANGED <<stderr, exit>>
             ELSE /\ stderr' = stderr \o <<WriteErrLine(w.cause)>>
                  /\ exit' = 1
                  /\ pc' = "exited"
    /\ UNCHANGED <<args, stdin, filename, content, size, stdout, fs0,
                   readCalls, readRes, prev>>

\* main, the size of the written file; unwrap panics on an error
QueryMetadata ==
    /\ pc = "meta"
    /\ \E m \in MetadataResults(filename, fs) :
          IF m.ok
          THEN /\ size' = m.len
               /\ pc' = "print"
               /\ UNCHANGED <<stderr, exit>>
          ELSE /\ stderr' = stderr \o <<PanicLine("unwrap")>>
               /\ exit' = PanicExit
               /\ pc' = "exited"
               /\ UNCHANGED size
    /\ UNCHANGED <<args, stdin, fs, dirs, filename, content, stdout, fs0,
                   readCalls, writeCalls, readRes, writeRes, prev>>

\* the success line carrying the number of characters of the buffer
PrintSuccessChars ==
    /\ pc = "print"
    /\ \/ /\ stdout' = stdout \o <<CreatedLine(filename, CharCount(content))>>
          /\ exit' = 0
          /\ UNCHANGED stderr
       \/ /\ stderr' = stderr \o <<PanicLine("println")>>
          /\ exit' = PanicExit
          /\ UNCHANGED stdout
    /\ pc' = "exited"
    /\ UNCHANGED <<args, stdin, fs, dirs, filename, content, size, fs0,
                   readCalls, writeCalls, readRes, writeRes, prev>>

\* main, the success line and the return from main; println panics when
\* standard output refuses the line
PrintSuccess ==
    /\ pc = "print"
    /\ \/ /\ stdout' = stdout \o <<CreatedLine(filename, size)>>
          /\ exit' = 0
          /\ UNCHANGED stderr
       \/ /\ stderr' = stderr \o <<PanicLine("println")>>
          /\ exit' = PanicExit
          /\ UNCHANGED stdout
    /\ pc' = "exited"
    /\ UNCHANGED <<args, stdin, fs, dirs, filename, content, size, fs0,
                   readCalls, writeCalls, readRes, writeRes, prev>>

\* the program is started: env::args() and standard input are what the
\* caller supplies
Exec ==
    /\ pc = "start"
    /\ \E a \in ArgVectors, s \in ByteSeqs(MaxLen) :
          /\ args' = a
          /\ stdin' = s
    /\ pc' = "args"
    /\ UNCHANGED <<fs, dirs, filename, content, size, stdout, stderr, exit,
                   fs0, readCalls, writeCalls, readRes, writeRes, prev>>

\* the exited process is collected; the files stay for the next run
Wait ==
    /\ pc = "exited"
    /\ prev' = IF exit = 0 THEN [path |-> filename, text |-> content]
               ELSE NoPrev
    /\ args' = <<Prog>>
    /\ stdin' = <<>>
    /\ pc' = "start"
    /\ filename' = NoPath
    /\ content' = <<>>
    /\ size' = -1
    /\ stdout' = <<>>
    /\ stderr' = <<>>
    /\ exit' = -1
    /\ fs0' = fs
    /\ readCalls' = 0
    /\ writeCalls' = 0
    /\ readRes' = "none"
    /\ writeRes' = NoWrite
    /\ UNCHANGED <<fs, dirs>>

Next ==
    \/ Exec
    \/ CheckArgs
    \/ ReadStdin
    \/ WriteFile
    \/ QueryMetadata
    \/ PrintSuccess
    \/ Wait

Spec == Init /\ [][Next]_vars

\* --------------------------------------------------------------- typing
TypeOK ==
    /\ args \in ArgVectors
    /\ pc \in {"start", "args", "read", "write", "meta", "print", "exited"}
    /\ exit \in {-1, 0, 1, PanicExit}
    /\ dirs \subseteq {"." , "nodir"}
    /\ readCalls \in 0..1
    /\ writeCalls \in 0..1

\* ---------------------------------------------------------------- claims
Exited == pc = "exited"

ReadErrLines == {ReadErrLine(c) : c \in {"io", "invalid utf-8"}}
WriteErrLines == {WriteErrLine(c) : c \in {"not found", "denied", "io"}}

\* C1: when the input is valid text that is read and the target is written,
\* the run ends with exit code 0, the target holds exactly the input, and
\* standard output is one success line naming the target and the input's
\* length in bytes
C1_SuccessContract ==
    (Exited /\ Len(args) >= 2 /\ readRes = "ok" /\ writeRes.state = "ok")
        => /\ exit = 0
           /\ fs[args[2]] = File(stdin)
           /\ stdout = <<CreatedLine(args[2], Len(stdin))>>

\* C2: a run ends either with exit code 0 after the success line, or with
\* exit code 1 after a diagnostic on standard error; there is no other end
C2_TwoOutcomes ==
    Exited => \/ /\ exit = 0
                 /\ stdout # <<>>
                 /\ stdout[Len(stdout)].kind = "Created"
              \/ /\ exit = 1
                 /\ stderr # <<>>

\* C3: until standard input has been read in full the target is not opened
\* and the files are as the run found them; a run whose read fails prints
\* one "Error reading stdin" line, exits 1 and leaves every file as it was
C3_ReadFailureLeavesFile ==
    /\ readRes # "ok" => (writeCalls = 0 /\ fs = fs0 /\ dirs = InitDirs)
    /\ (Exited /\ readRes = "err")
          => /\ exit = 1
             /\ stdout = <<>>
             /\ Len(stderr) = 1
             /\ stderr[1] \in ReadErrLines

C3_Witness ==
    /\ Exited
    /\ readRes = "err"
    /\ ~Utf8Valid(stdin)
    /\ stderr = <<ReadErrLine("invalid utf-8")>>
    /\ fs0[args[2]].exists
    /\ fs0[args[2]].data # <<>>

\* C4: a run without a positional argument exits 1 with the two usage lines
\* on standard error, whatever standard input holds, without reading standard
\* input, printing on standard output or touching a file
C4_Usage ==
    (Exited /\ Len(args) < 2)
        => /\ exit = 1
           /\ stderr = <<UsageLine(args[1]), NoteLine>>
           /\ stdout = <<>>
           /\ readCalls = 0
           /\ writeCalls = 0
           /\ fs = fs0
           /\ dirs = InitDirs

C4_Witness ==
    /\ Exited
    /\ Len(args) = 1
    /\ stdin # <<>>
    /\ exit = 1

\* C5: a run whose write fails prints one "Error writing file" line, exits 1
\* and prints no success line; a write under a missing directory always
\* fails, and neither that directory nor a file in it ever comes to exist
C5_WriteFailure ==
    /\ dirs = InitDirs
    /\ \A p \in Paths : p[1] \notin InitDirs => ~fs[p].exists
    /\ (writeCalls = 1 /\ filename[1] \notin InitDirs)
          => (writeRes.state = "err" /\ fs = fs0)
    /\ (Exited /\ writeRes.state = "err")
          => /\ exit = 1
             /\ stdout = <<>>
             /\ Len(stderr) = 1
             /\ stderr[1] \in WriteErrLines

C5_Witness ==
    /\ Exited
    /\ filename = <<"nodir", "f">>
    /\ writeRes.state = "err"
    /\ stderr = <<WriteErrLine("not found")>>

\* C6: after a successful run the target holds exactly that run's input,
\* whatever a preceding successful run on the same path, or anyone before
\* it, had left there
C6_Overwrite ==
    (Exited /\ exit = 0 /\ (prev.path = filename \/ fs0[filename].exists))
        => fs[filename] = File(stdin)

C6_Witness ==
    /\ Exited
    /\ exit = 0
    /\ prev.path = filename
    /\ fs0[filename] = File(prev.text)
    /\ Len(stdin) > 0
    /\ Len(stdin) < Len(prev.text)

\* C7: on a successful run the count in the success line is the value the
\* metadata query returned, the size of the target when the run ends, and
\* the length in bytes of the input; for empty input that is a file of size 0
C7_ByteCount ==
    (Exited /\ exit = 0)
        => /\ Len(stdout) = 1
           /\ stdout[1].kind = "Created"
           /\ stdout[1].bytes = size
           /\ fs[filename].exists
           /\ stdout[1].bytes = Len(fs[filename].data)
           /\ stdout[1].bytes = Len(stdin)

C7_Witness ==
    /\ Exited
    /\ exit = 0
    /\ stdin = <<>>
    /\ fs[filename] = File(<<>>)
    /\ stdout = <<CreatedLine(filename, 0)>>

\* C8: a success line is on standard output only once the read and the write
\* have completed and the target holds the whole buffer; a run that fails
\* has written the diagnostic of exactly one of the three failure sites to
\* standard error, once, and nothing to standard output
C8_Reporting ==
    /\ stdout # <<>> => /\ readRes = "ok"
                        /\ writeRes.state = "ok"
                        /\ fs[filename] = File(content)
    /\ (Exited /\ exit # 0)
          => /\ stdout = <<>>
             /\ \/ stderr = <<UsageLine(args[1]), NoteLine>>
                \/ Len(stderr) = 1 /\ stderr[1] \in ReadErrLines
                \/ Len(stderr) = 1 /\ stderr[1] \in WriteErrLines

\* C9: the read and the write are each called at most once in a run; when
\* the write fails after the target was created or emptied the run exits 1
\* with one "Error writing file" line and the target is left holding the
\* bytes that were written before the failure
C9_NoRetryNoRollback ==
    /\ readCalls <= 1
    /\ writeCalls <= 1
    /\ (Exited /\ readRes # "none") => readCalls = 1
    /\ (Exited /\ writeRes.state = "err" /\ writeRes.opened)
          => /\ writeCalls = 1
             /\ fs[filename] = File(Prefix(content, writeRes.n))
             /\ exit = 1
             /\ Len(stderr) = 1
             /\ stderr[1] \in WriteErrLines

C9_Witness ==
    /\ Exited
    /\ writeRes.state = "err"
    /\ writeRes.opened
    /\ writeRes.n > 0
    /\ fs0[filename].exists
    /\ fs0[filename] # fs[filename]

\* C10: in a run with further positional arguments the target is the first
\* one, no usage line is printed, no file other than the target changes, and
\* the run ends as the run with the first argument alone ends: exit 0 with
\* the target holding the input and the success line for the target, exit 1
\* with the one line of a failed read or write, or the panic
C10_ExtraArgsIgnored ==
    Len(args) > 2
        => /\ pc \notin {"start", "args"} => filename = args[2]
           /\ \A p \in Paths \ {args[2]} : fs[p] = fs0[p]
           /\ \A i \in 1..Len(stderr) : stderr[i].kind # "Usage"
           /\ \A i \in 1..Len(stdout) : stdout[i].path = args[2]
           /\ (Exited /\ exit = 0)
                 => /\ fs[args[2]] = File(stdin)
                    /\ stdout = <<CreatedLine(args[2], Len(stdin))>>
                    /\ stderr = <<>>
           /\ (Exited /\ exit = 1)
                 => /\ stdout = <<>>
                    /\ Len(stderr) = 1
                    /\ stderr[1] \in ReadErrLines \cup WriteErrLines
                    /\ stderr[1] \in WriteErrLines
                          => fs[args[2]] = File(Prefix(stdin, writeRes.n))
                             \/ (~writeRes.opened /\ fs = fs0)

C10_Witness ==
    /\ Exited
    /\ exit = 0
    /\ Len(args) > 2
    /\ args[3] # args[2]
    /\ ~fs[args[3]].exists
    /\ stdin # <<>>

====
